---- MODULE Spec2Model ----
(***************************************************************************)
(* A model of the core of lal: the per-stream Group hub                    *)
(* (pkg/logic/group.go) and the RTMP ChunkComposer                         *)
(* (pkg/rtmp/chunk_composer.go).                                           *)
(*                                                                         *)
(* The group is modelled at the granularity at which its goroutines can    *)
(* interleave: an operation that holds group.mutex for its whole body is   *)
(* one step taken by the holder of the mutex; AddRTMPPullSession and       *)
(* DelRTMPPullSession, which release the mutex before they touch the       *)
(* group, are one step per statement.                                      *)
(***************************************************************************)
EXTENDS Integers, Sequences, FiniteSets, TLC

VARIABLES
    config,                \* the package-level config the group reads
    pubSession,            \* group.pubSession
    pubLive,               \* pub sessions whose owner has called Add and not yet Del
    pubObserver,           \* live pub sessions that were given the group as observer
    rtmpSubSessionSet,     \* group.rtmpSubSessionSet
    httpflvSubSessionSet,  \* group.httpflvSubSessionSet
    hlsMuxer,              \* group.hlsMuxer
    url2PushProxy,         \* group.url2PushProxy
    pullSession,           \* group.pullSession
    isPulling,             \* group.isPulling
    gopCache,              \* group.gopCache
    httpflvGopCache,       \* group.httpflvGopCache
    mutex,                 \* group.mutex: TRUE while some goroutine holds it
    isFresh,               \* session.IsFresh of every sub / push session
    wq,                    \* what was handed to each session's AsyncWrite / WriteRawPacket
    disposed,              \* sessions on which Dispose() was called
    pullTask,              \* position of each relay-pull goroutine
    pushTask,              \* position of each relay-push goroutine of each url
    ret,                   \* the operation that last returned to its caller, and its result
    pubs,                  \* the pub sessions that are going to ask for this stream
    script,                \* the messages the publisher is going to deliver
    pos,                   \* index in script of the next message
    exitChan,              \* the number of values buffered in group.exitChan
    runLoop,               \* where the goroutine of Group.RunLoop is, if there is one
    disposing,             \* where each call of Dispose is
    isNil,                 \* the maps of the group that Dispose has set to nil
    peerChunkSize,         \* ChunkComposer.peerChunkSize
    csid2stream,           \* ChunkComposer.csid2stream: header and msg of every csid seen
    absTsFlag,             \* RunLoop's local absTsFlag
    reader,                \* the bytes the peer has written and RunLoop has not read yet
    delivered,             \* the streams RunLoop has handed to its callback, in order
    lastRead,              \* the payload read of RunLoop's last iteration
    panicked,              \* RunLoop has panicked
    encChunkSize,          \* the peer's outgoing chunk size
    enc,                   \* the peer's state of every chunk stream
    sent,                  \* the messages the peer has written completely, in order
    nMsgs                  \* the number of messages the peer has started

gvars == <<config, pubSession, pubLive, pubObserver, rtmpSubSessionSet, httpflvSubSessionSet,
           hlsMuxer, url2PushProxy, pullSession, isPulling, gopCache,
           httpflvGopCache, mutex, isFresh, wq, disposed, pullTask, pushTask,
           ret, pubs, script, pos, exitChan, runLoop, disposing, isNil>>

cvars == <<peerChunkSize, csid2stream, absTsFlag, reader, delivered, lastRead,
           panicked, encChunkSize, enc, sent, nMsgs>>

\* what belongs to Dispose and RunLoop
dvars == <<exitChan, runLoop, disposing, isNil>>

\* what the operations of the group other than Dispose and RunLoop leave alone
rest == <<pubs, script, dvars, cvars>>

vars == <<gvars, cvars>>

----------------------------------------------------------------------------
(* Bounds and identities *)

\* relay-pull goroutines that may be alive at the same time
MaxPullTasks == 2

\* largest GOP ring size (config.RTMPConfig.GOPNum) drawn by Init
MaxGOPNum == 2

\* relay-push goroutines that may be alive for one url
MaxPushTasks == 2

\* calls of Dispose on the group
MaxDisposeCalls == 2

NIL == "nil"
NoPull == 0
Tasks == 1..MaxPullTasks
PubSessions == {"p1", "p2"}
RtmpSubs == {"s1"}
FlvSubs == {"f1"}
PushUrls == {"u1"}
AllSessions == RtmpSubs \cup FlvSubs \cup PushUrls
DisposeCalls == 1..MaxDisposeCalls
PushTasks == 1..MaxPushTasks

MsgKinds == {"metadata", "vseq", "aseq", "key", "inter", "audio"}

----------------------------------------------------------------------------
(* GOPCache: its code is not part of the sources at hand; modelled from    *)
(* section 4.4 of the specification.                                       *)

NewGOPCache == [Metadata |-> <<>>, VideoSeqHeader |-> <<>>,
                AACSeqHeader |-> <<>>, gops |-> <<>>]

GOPCacheClear(c) == NewGOPCache

GOPCacheFeed(c, msg, item, gopNum) ==
    CASE msg.kind = "metadata" -> [c EXCEPT !.Metadata = <<item>>]
      [] msg.kind = "vseq" -> [c EXCEPT !.VideoSeqHeader = <<item>>]
      [] msg.kind = "aseq" -> [c EXCEPT !.AACSeqHeader = <<item>>]
      [] msg.kind = "key" ->
           LET g == Append(c.gops, <<item>>)
           IN  [c EXCEPT !.gops = IF Len(g) > gopNum THEN Tail(g) ELSE g]
      [] OTHER ->
           IF Len(c.gops) = 0 THEN c
           ELSE [c EXCEPT !.gops[Len(c.gops)] = Append(@, item)]

RECURSIVE Flatten(_)
Flatten(ss) == IF ss = <<>> THEN <<>> ELSE Head(ss) \o Flatten(Tail(ss))

----------------------------------------------------------------------------
(* Lazy renderers: the bytes a session is handed for a message *)

LcdGet(msg) == [form |-> "chunks", kind |-> msg.kind, seq |-> msg.seq]
Lrm2ftGet(msg) == [form |-> "tag", kind |-> msg.kind, seq |-> msg.seq]

\* what WriteHTTPResponseHeader and WriteFLVHeader write to a session
HTTPResponseHeader == [form |-> "http", kind |-> "header", seq |-> 0]
FLVHeader == [form |-> "tag", kind |-> "header", seq |-> 0]

----------------------------------------------------------------------------
(* Group: helpers *)

NoMuxer == [nonNil |-> FALSE, fed |-> 0]
\* hls.NewMuxer(...) followed by Start()
NewMuxer == [nonNil |-> TRUE, fed |-> 0]

NoRet == [op |-> "none", val |-> FALSE]
Returned(op, val) == [op |-> op, val |-> val]

PullIdle == "idle"
FreeTasks == {t \in Tasks : pullTask[t] = PullIdle}
FreeTask == CHOOSE t \in FreeTasks : \A u \in FreeTasks : t <= u

\* a session object that nothing refers to any more is not kept: its name
\* stands for the next session built
Forget(ss) ==
    /\ isFresh' = [s \in AllSessions |-> IF s \in ss THEN TRUE ELSE isFresh[s]]
    /\ wq' = [s \in AllSessions |-> IF s \in ss THEN <<>> ELSE wq[s]]

\* the cached state a fresh session is sent before the current message
SendCached(c) == c.Metadata \o c.VideoSeqHeader \o c.AACSeqHeader \o Flatten(c.gops)

\* the sessions a broadcast hands native-protocol bytes to
PushSessionsAttached ==
    IF config.RelayPushEnable
    THEN {u \in PushUrls : url2PushProxy[u].pushSession # NIL}
    ELSE {}

\* pullIfNeeded without the test of group.isPulling
pullIfNeeded_NoIsPullingTest(rtmpSet, flvSet) ==
    IF /\ config.RelayPullEnable
       /\ ~(rtmpSet = {} /\ flvSet = {})
       /\ ~(pubSession # NIL \/ pullSession # NoPull)
    THEN /\ FreeTasks # {}
         /\ isPulling' = TRUE
         /\ pullTask' = [pullTask EXCEPT ![FreeTask] = "pull"]
    ELSE UNCHANGED <<isPulling, pullTask>>

\* pullIfNeeded, called with the mutex held, on the subscriber sets as the
\* caller has just left them
pullIfNeeded(rtmpSet, flvSet) ==
    IF /\ config.RelayPullEnable
       /\ ~(rtmpSet = {} /\ flvSet = {})
       /\ ~(pubSession # NIL \/ pullSession # NoPull)
       /\ ~isPulling
    THEN /\ FreeTasks # {}
         /\ isPulling' = TRUE
         /\ pullTask' = [pullTask EXCEPT ![FreeTask] = "pull"]
    ELSE UNCHANGED <<isPulling, pullTask>>

PushIdle == "idle"
FreePushTasks(url) == {k \in PushTasks : pushTask[url][k] = PushIdle}
FreePushTask(url) == CHOOSE k \in FreePushTasks(url) : \A j \in FreePushTasks(url) : k <= j

\* pushIfNeeded without the test of the proxy's isPushing
pushIfNeeded_NoIsPushingTest(pub) ==
    LET start == IF config.RelayPushEnable /\ pub # NIL /\ "url2PushProxy" \notin isNil
                 THEN PushUrls
                 ELSE {}
    IN  /\ \A u \in start : FreePushTasks(u) # {}
        /\ url2PushProxy' = [u \in PushUrls |->
              IF u \in start THEN [url2PushProxy[u] EXCEPT !.isPushing = TRUE]
              ELSE url2PushProxy[u]]
        /\ pushTask' = [u \in PushUrls |->
              IF u \in start THEN [pushTask[u] EXCEPT ![FreePushTask(u)] = "push"]
              ELSE pushTask[u]]

\* pushIfNeeded, called with the mutex held; pub is group.pubSession as the
\* caller has just left it.  
pushIfNeeded(pub) ==
    LET start == IF config.RelayPushEnable /\ pub # NIL /\ "url2PushProxy" \notin isNil
                 THEN {u \in PushUrls : ~url2PushProxy[u].isPushing}
                 ELSE {}
    IN  /\ \A u \in start : FreePushTasks(u) # {}
        /\ url2PushProxy' = [u \in PushUrls |->
              IF u \in start THEN [url2PushProxy[u] EXCEPT !.isPushing = TRUE]
              ELSE url2PushProxy[u]]
        /\ pushTask' = [u \in PushUrls |->
              IF u \in start THEN [pushTask[u] EXCEPT ![FreePushTask(u)] = "push"]
              ELSE pushTask[u]]

\* broadcastRTMP feeding the caches before it serves the subscribers
broadcastRTMP_FeedFirst(msg) ==
    LET native == rtmpSubSessionSet \cup PushSessionsAttached
        served == native \cup httpflvSubSessionSet
        fed == IF config.RTMPEnable
               THEN GOPCacheFeed(gopCache, msg, LcdGet(msg), config.RTMPGOPNum)
               ELSE gopCache
        flvFed == IF config.HTTPFLVEnable
                  THEN GOPCacheFeed(httpflvGopCache, msg, Lrm2ftGet(msg),
                                    config.HTTPFLVGOPNum)
                  ELSE httpflvGopCache
        cached(s) == IF ~isFresh[s] THEN <<>>
                     ELSE IF s \in native THEN SendCached(fed)
                     ELSE SendCached(flvFed)
        current(s) == IF s \in native THEN LcdGet(msg) ELSE Lrm2ftGet(msg)
    IN  /\ wq' = [s \in AllSessions |->
              IF s \in served THEN (wq[s] \o cached(s)) \o <<current(s)>> ELSE wq[s]]
        /\ isFresh' = [s \in AllSessions |-> IF s \in served THEN FALSE ELSE isFresh[s]]
        /\ gopCache' = fed
        /\ httpflvGopCache' = flvFed

\* broadcastRTMP leaving IsFresh as it finds it
broadcastRTMP_KeepFresh(msg) ==
    LET native == rtmpSubSessionSet \cup PushSessionsAttached
        served == native \cup httpflvSubSessionSet
        cached(s) == IF ~isFresh[s] THEN <<>>
                     ELSE IF s \in native THEN SendCached(gopCache)
                     ELSE SendCached(httpflvGopCache)
        current(s) == IF s \in native THEN LcdGet(msg) ELSE Lrm2ftGet(msg)
    IN  /\ wq' = [s \in AllSessions |->
              IF s \in served THEN (wq[s] \o cached(s)) \o <<current(s)>> ELSE wq[s]]
        /\ isFresh' = isFresh
        /\ gopCache' = IF config.RTMPEnable
                       THEN GOPCacheFeed(gopCache, msg, LcdGet(msg), config.RTMPGOPNum)
                       ELSE gopCache
        /\ httpflvGopCache' = IF config.HTTPFLVEnable
                              THEN GOPCacheFeed(httpflvGopCache, msg, Lrm2ftGet(msg),
                                                config.HTTPFLVGOPNum)
                              ELSE httpflvGopCache

\* broadcastRTMP writing a session the current message before the cached state
broadcastRTMP_CurrentFirst(msg) ==
    LET native == rtmpSubSessionSet \cup PushSessionsAttached
        served == native \cup httpflvSubSessionSet
        cached(s) == IF ~isFresh[s] THEN <<>>
                     ELSE IF s \in native THEN SendCached(gopCache)
                     ELSE SendCached(httpflvGopCache)
        current(s) == IF s \in native THEN LcdGet(msg) ELSE Lrm2ftGet(msg)
    IN  /\ wq' = [s \in AllSessions |->
              IF s \in served THEN (wq[s] \o <<current(s)>>) \o cached(s) ELSE wq[s]]
        /\ isFresh' = [s \in AllSessions |-> IF s \in served THEN FALSE ELSE isFresh[s]]
        /\ gopCache' = IF config.RTMPEnable
                       THEN GOPCacheFeed(gopCache, msg, LcdGet(msg), config.RTMPGOPNum)
                       ELSE gopCache
        /\ httpflvGopCache' = IF config.HTTPFLVEnable
                              THEN GOPCacheFeed(httpflvGopCache, msg, Lrm2ftGet(msg),
                                                config.HTTPFLVGOPNum)
                              ELSE httpflvGopCache

\* broadcastRTMP: serve the subscribers, then feed the caches
broadcastRTMP(msg) ==
    LET native == rtmpSubSessionSet \cup PushSessionsAttached
        served == native \cup httpflvSubSessionSet
        cached(s) == IF ~isFresh[s] THEN <<>>
                     ELSE IF s \in native THEN SendCached(gopCache)
                     ELSE SendCached(httpflvGopCache)
        current(s) == IF s \in native THEN LcdGet(msg) ELSE Lrm2ftGet(msg)
    IN  /\ wq' = [s \in AllSessions |->
              IF s \in served THEN (wq[s] \o cached(s)) \o <<current(s)>> ELSE wq[s]]
        /\ isFresh' = [s \in AllSessions |-> IF s \in served THEN FALSE ELSE isFresh[s]]
        /\ gopCache' = IF config.RTMPEnable
                       THEN GOPCacheFeed(gopCache, msg, LcdGet(msg), config.RTMPGOPNum)
                       ELSE gopCache
        /\ httpflvGopCache' = IF config.HTTPFLVEnable
                              THEN GOPCacheFeed(httpflvGopCache, msg, Lrm2ftGet(msg),
                                                config.HTTPFLVGOPNum)
                              ELSE httpflvGopCache

----------------------------------------------------------------------------
(* Group: operations that hold the mutex for their whole body.  MutexLock  *)
(* is the Lock() of any of them; the body and the deferred Unlock() are    *)
(* the operation's own step.                                               *)

MutexLock ==
    /\ ~mutex
    /\ mutex' = TRUE
    /\ UNCHANGED <<config, pubSession, pubLive, pubObserver, rtmpSubSessionSet,
                   httpflvSubSessionSet, hlsMuxer, url2PushProxy, pullSession,
                   isPulling, gopCache, httpflvGopCache, isFresh, wq, disposed,
                   pullTask, pushTask, ret, rest, pos>>

Tick ==
    /\ mutex
    /\ pullIfNeeded(rtmpSubSessionSet, httpflvSubSessionSet)
    /\ pushIfNeeded(pubSession)
    /\ mutex' = FALSE
    /\ ret' = NoRet
    /\ UNCHANGED <<config, pubSession, pubLive, pubObserver, rtmpSubSessionSet,
                   httpflvSubSessionSet, hlsMuxer, pullSession, gopCache,
                   httpflvGopCache, isFresh, wq, disposed, rest, pos>>

\* AddRTMPPubSession without the test for an installed publisher
AddRTMPPubSession_NoExistTest(session) ==
    /\ mutex
    /\ session \in pubs \ pubLive
    /\ pubLive' = pubLive \cup {session}
    /\ IF FALSE
       THEN /\ ret' = Returned("AddRTMPPubSession", FALSE)
            /\ UNCHANGED <<pubSession, pubObserver, hlsMuxer, url2PushProxy,
                           pushTask>>
       ELSE /\ pubSession' = session
            /\ hlsMuxer' = IF config.HLSEnable THEN NewMuxer ELSE hlsMuxer
            /\ IF config.RelayPushEnable
               THEN pushIfNeeded(session)
               ELSE UNCHANGED <<url2PushProxy, pushTask>>
            /\ pubObserver' = pubObserver \cup {session}
            /\ ret' = Returned("AddRTMPPubSession", TRUE)
    /\ mutex' = FALSE
    /\ UNCHANGED <<config, rtmpSubSessionSet, httpflvSubSessionSet, pullSession,
                   isPulling, gopCache, httpflvGopCache, isFresh, wq, disposed,
                   pullTask, rest, pos>>

AddRTMPPubSession(session) ==
    /\ mutex
    /\ session \in pubs \ pubLive
    /\ pubLive' = pubLive \cup {session}
    /\ IF pubSession # NIL
       THEN /\ ret' = Returned("AddRTMPPubSession", FALSE)
            /\ UNCHANGED <<pubSession, pubObserver, hlsMuxer, url2PushProxy,
                           pushTask>>
       ELSE /\ pubSession' = session
            /\ hlsMuxer' = IF config.HLSEnable THEN NewMuxer ELSE hlsMuxer
            /\ IF config.RelayPushEnable
               THEN pushIfNeeded(session)
               ELSE UNCHANGED <<url2PushProxy, pushTask>>
            /\ pubObserver' = pubObserver \cup {session}
            /\ ret' = Returned("AddRTMPPubSession", TRUE)
    /\ mutex' = FALSE
    /\ UNCHANGED <<config, rtmpSubSessionSet, httpflvSubSessionSet, pullSession,
                   isPulling, gopCache, httpflvGopCache, isFresh, wq, disposed,
                   pullTask, rest, pos>>

DelRTMPPubSession(session) ==
    /\ mutex
    /\ session \in pubLive
    /\ pubLive' = pubLive \ {session}
    /\ pubObserver' = pubObserver \ {session}
    /\ pubSession' = NIL
    /\ hlsMuxer' = IF config.HLSEnable /\ hlsMuxer.nonNil THEN NoMuxer ELSE hlsMuxer
    /\ IF config.RelayPushEnable
       THEN /\ disposed' = disposed \cup
                           {u \in PushUrls : url2PushProxy[u].pushSession # NIL}
            /\ url2PushProxy' = [u \in PushUrls |->
                                   [url2PushProxy[u] EXCEPT !.pushSession = NIL]]
       ELSE UNCHANGED <<disposed, url2PushProxy>>
    /\ gopCache' = GOPCacheClear(gopCache)
    /\ httpflvGopCache' = GOPCacheClear(httpflvGopCache)
    /\ ret' = Returned("DelRTMPPubSession", FALSE)
    /\ mutex' = FALSE
    /\ UNCHANGED <<config, rtmpSubSessionSet, httpflvSubSessionSet, pullSession,
                   isPulling, isFresh, wq, pullTask, pushTask, rest, pos>>

\* the session handed in is a newly built one: IsFresh, nothing written yet
AddRTMPSubSession(session) ==
    /\ mutex
    /\ "rtmpSubSessionSet" \notin isNil
    /\ session \notin rtmpSubSessionSet
    /\ rtmpSubSessionSet' = rtmpSubSessionSet \cup {session}
    /\ isFresh' = [isFresh EXCEPT ![session] = TRUE]
    /\ wq' = [wq EXCEPT ![session] = <<>>]
    /\ pullIfNeeded(rtmpSubSessionSet', httpflvSubSessionSet)
    /\ mutex' = FALSE
    /\ ret' = NoRet
    /\ UNCHANGED <<config, pubSession, pubLive, pubObserver, httpflvSubSessionSet,
                   hlsMuxer, url2PushProxy, pullSession, gopCache, httpflvGopCache,
                   disposed, pushTask, rest, pos>>

DelRTMPSubSession(session) ==
    /\ mutex
    /\ session \in rtmpSubSessionSet
    /\ rtmpSubSessionSet' = rtmpSubSessionSet \ {session}
    /\ Forget({session})
    /\ mutex' = FALSE
    /\ ret' = NoRet
    /\ UNCHANGED <<config, pubSession, pubLive, pubObserver, httpflvSubSessionSet,
                   hlsMuxer, url2PushProxy, pullSession, isPulling, gopCache,
                   httpflvGopCache, disposed, pullTask, pushTask,
                   rest, pos>>

\* the session handed in is a newly built one; it is written the HTTP
\* response header and the FLV header before the mutex is taken
AddHTTPFLVSubSession(session) ==
    /\ mutex
    /\ "httpflvSubSessionSet" \notin isNil
    /\ session \notin httpflvSubSessionSet
    /\ httpflvSubSessionSet' = httpflvSubSessionSet \cup {session}
    /\ isFresh' = [isFresh EXCEPT ![session] = TRUE]
    /\ wq' = [wq EXCEPT ![session] = <<HTTPResponseHeader, FLVHeader>>]
    /\ pullIfNeeded(rtmpSubSessionSet, httpflvSubSessionSet')
    /\ mutex' = FALSE
    /\ ret' = NoRet
    /\ UNCHANGED <<config, pubSession, pubLive, pubObserver, rtmpSubSessionSet,
                   hlsMuxer, url2PushProxy, pullSession, gopCache, httpflvGopCache,
                   disposed, pushTask, rest, pos>>

DelHTTPFLVSubSession(session) ==
    /\ mutex
    /\ session \in httpflvSubSessionSet
    /\ httpflvSubSessionSet' = httpflvSubSessionSet \ {session}
    /\ Forget({session})
    /\ mutex' = FALSE
    /\ ret' = NoRet
    /\ UNCHANGED <<config, pubSession, pubLive, pubObserver, rtmpSubSessionSet,
                   hlsMuxer, url2PushProxy, pullSession, isPulling, gopCache,
                   httpflvGopCache, disposed, pullTask, pushTask,
                   rest, pos>>

\* called by the push goroutine of url once Push(url) has succeeded
AddRTMPPushSession(url, k) ==
    /\ mutex
    /\ pushTask[url][k] = "add"
    /\ url2PushProxy' = IF "url2PushProxy" \in isNil THEN url2PushProxy
                        ELSE [url2PushProxy EXCEPT ![url].pushSession = url]
    /\ pushTask' = [pushTask EXCEPT ![url][k] = "wait"]
    /\ mutex' = FALSE
    /\ ret' = NoRet
    /\ UNCHANGED <<config, pubSession, pubLive, pubObserver, rtmpSubSessionSet,
                   httpflvSubSessionSet, hlsMuxer, pullSession, isPulling, gopCache,
                   httpflvGopCache, isFresh, wq, disposed, pullTask, rest, pos>>

\* DelRTMPPushSession leaving isPushing as it finds it
DelRTMPPushSession_KeepIsPushing(url, k) ==
    /\ mutex
    /\ pushTask[url][k] = "del"
    /\ url2PushProxy' = IF "url2PushProxy" \in isNil THEN url2PushProxy
                        ELSE [url2PushProxy EXCEPT ![url].pushSession = NIL]
    /\ pushTask' = [pushTask EXCEPT ![url][k] = PushIdle]
    /\ Forget({url})
    /\ disposed' = disposed \ {url}
    /\ mutex' = FALSE
    /\ ret' = NoRet
    /\ UNCHANGED <<config, pubSession, pubLive, pubObserver, rtmpSubSessionSet,
                   httpflvSubSessionSet, hlsMuxer, pullSession, isPulling, gopCache,
                   httpflvGopCache, pullTask, rest, pos>>

\* called by the push goroutine of url when Push(url) failed or its session
\* is done; the goroutine ends
DelRTMPPushSession(url, k) ==
    /\ mutex
    /\ pushTask[url][k] = "del"
    /\ url2PushProxy' = IF "url2PushProxy" \in isNil THEN url2PushProxy
                        ELSE [url2PushProxy EXCEPT ![url] =
                                 [isPushing |-> FALSE, pushSession |-> NIL]]
    /\ pushTask' = [pushTask EXCEPT ![url][k] = PushIdle]
    /\ Forget({url})
    /\ disposed' = disposed \ {url}
    /\ mutex' = FALSE
    /\ ret' = NoRet
    /\ UNCHANGED <<config, pubSession, pubLive, pubObserver, rtmpSubSessionSet,
                   httpflvSubSessionSet, hlsMuxer, pullSession, isPulling, gopCache,
                   httpflvGopCache, pullTask, rest, pos>>

TotalEmpty ==
    LET hasPushSession == \E u \in PushUrls :
            url2PushProxy[u].isPushing \/ url2PushProxy[u].pushSession # NIL
    IN  /\ pubSession = NIL
        /\ Cardinality(rtmpSubSessionSet) = 0
        /\ Cardinality(httpflvSubSessionSet) = 0
        /\ ~hlsMuxer.nonNil
        /\ ~hasPushSession
        /\ pullSession = NoPull

IsTotalEmpty ==
    /\ mutex
    /\ ret' = Returned("IsTotalEmpty", TotalEmpty)
    /\ mutex' = FALSE
    /\ UNCHANGED <<config, pubSession, pubLive, pubObserver, rtmpSubSessionSet,
                   httpflvSubSessionSet, hlsMuxer, url2PushProxy, pullSession,
                   isPulling, gopCache, httpflvGopCache, isFresh, wq, disposed,
                   pullTask, pushTask, rest, pos>>

\* a pull session is reading from its upstream from the moment Pull succeeded
\* until it is done
PullConnected(t) == pullTask[t] \in {"add_lock", "add_set", "add_hls", "wait"}

\* the callback of the attached publisher or of a connected pull session
OnReadRTMPAVMsg ==
    /\ mutex
    /\ pos <= Len(script)
    /\ pubObserver # {} \/ \E t \in Tasks : PullConnected(t)
    /\ broadcastRTMP([kind |-> script[pos], seq |-> pos])
    /\ hlsMuxer' = IF config.HLSEnable /\ hlsMuxer.nonNil
                   THEN [hlsMuxer EXCEPT !.fed = @ + 1]
                   ELSE hlsMuxer
    /\ pos' = pos + 1
    /\ mutex' = FALSE
    /\ ret' = NoRet
    /\ UNCHANGED <<config, pubSession, pubLive, pubObserver, rtmpSubSessionSet,
                   httpflvSubSessionSet, url2PushProxy, pullSession, isPulling,
                   disposed, pullTask, pushTask, rest>>

----------------------------------------------------------------------------
(* Dispose and RunLoop.  A map that Dispose has set to nil is kept empty   *)
(* and named in isNil: it reads as an empty map, and an insertion into it  *)
(* panics, so that no session is added to a disposed group.                *)

\* capacity of group.exitChan
ExitChanCap == 1

OnlyDisposing(d, next) ==
    /\ disposing' = [disposing EXCEPT ![d] = next]
    /\ UNCHANGED <<config, pubSession, pubLive, pubObserver, rtmpSubSessionSet,
                   httpflvSubSessionSet, hlsMuxer, url2PushProxy, pullSession,
                   isPulling, gopCache, httpflvGopCache, mutex, isFresh, wq, disposed,
                   pullTask, pushTask, ret, pubs, script, pos, runLoop, isNil, cvars>>

\* a caller enters Dispose (the callers are interchangeable: they enter in order)
DisposeCall(d) ==
    /\ disposing[d] = "idle"
    /\ \A e \in DisposeCalls : e < d => disposing[e] # "idle"
    /\ OnlyDisposing(d, "send")
    /\ UNCHANGED exitChan

\* Dispose: group.exitChan <- struct{}{}, which blocks while the buffer is full
DisposeSend(d) ==
    /\ disposing[d] = "send"
    /\ exitChan < ExitChanCap
    /\ exitChan' = exitChan + 1
    /\ OnlyDisposing(d, "lock")

\* Dispose: the body, with the mutex held
Dispose(d) ==
    /\ mutex
    /\ disposing[d] = "lock"
    /\ disposing' = [disposing EXCEPT ![d] = "done"]
    /\ pubSession' = NIL
    /\ pubObserver' = pubObserver \ {pubSession}
    /\ rtmpSubSessionSet' = {}
    /\ httpflvSubSessionSet' = {}
    /\ hlsMuxer' = IF hlsMuxer.nonNil THEN NoMuxer ELSE hlsMuxer
    /\ url2PushProxy' = IF config.RelayPushEnable
                        THEN [u \in PushUrls |-> [isPushing |-> FALSE, pushSession |-> NIL]]
                        ELSE url2PushProxy
    /\ isNil' = isNil \cup {"rtmpSubSessionSet", "httpflvSubSessionSet"}
                      \cup (IF config.RelayPushEnable THEN {"url2PushProxy"} ELSE {})
    /\ disposed' = disposed \cup ({pubSession} \ {NIL}) \cup rtmpSubSessionSet
                        \cup httpflvSubSessionSet \cup PushSessionsAttached
    /\ ret' = Returned("Dispose", FALSE)
    /\ mutex' = FALSE
    /\ UNCHANGED <<config, pubLive, pullSession, isPulling, gopCache, httpflvGopCache,
                   isFresh, wq, pullTask, pushTask, pubs, script, pos, exitChan,
                   runLoop, cvars>>

\* Group.RunLoop: <-group.exitChan, and it returns
GroupRunLoop ==
    /\ runLoop = "running"
    /\ exitChan > 0
    /\ exitChan' = exitChan - 1
    /\ runLoop' = "returned"
    /\ UNCHANGED <<config, pubSession, pubLive, pubObserver, rtmpSubSessionSet,
                   httpflvSubSessionSet, hlsMuxer, url2PushProxy, pullSession,
                   isPulling, gopCache, httpflvGopCache, mutex, isFresh, wq, disposed,
                   pullTask, pushTask, ret, pubs, script, pos, disposing, isNil, cvars>>

----------------------------------------------------------------------------
(* The relay-pull goroutine started by pullIfNeeded.  Its session is named *)
(* after the goroutine.                                                    *)

GroupOnlyPull(t, next) ==
    /\ pullTask' = [pullTask EXCEPT ![t] = next]
    /\ UNCHANGED <<config, pubSession, pubLive, pubObserver, rtmpSubSessionSet,
                   httpflvSubSessionSet, url2PushProxy, mutex, isFresh, wq,
                   disposed, pushTask, ret, rest, pos>>

\* pullSesion.Pull(url, group.OnReadRTMPAVMsg) returns nil
PullDialOk(t) ==
    /\ pullTask[t] = "pull"
    /\ GroupOnlyPull(t, "add_lock")
    /\ UNCHANGED <<pullSession, isPulling, hlsMuxer, gopCache, httpflvGopCache>>

\* pullSesion.Pull(...) returns an error
PullDialFail(t) ==
    /\ pullTask[t] = "pull"
    /\ GroupOnlyPull(t, "del_lock")
    /\ UNCHANGED <<pullSession, isPulling, hlsMuxer, gopCache, httpflvGopCache>>

\* AddRTMPPullSession: group.mutex.Lock() immediately followed by Unlock()
AddRTMPPullSessionLock(t) ==
    /\ pullTask[t] = "add_lock"
    /\ ~mutex
    /\ GroupOnlyPull(t, "add_set")
    /\ UNCHANGED <<pullSession, isPulling, hlsMuxer, gopCache, httpflvGopCache>>

\* AddRTMPPullSession: group.pullSession = session
AddRTMPPullSessionSet(t) ==
    /\ pullTask[t] = "add_set"
    /\ pullSession' = t
    /\ GroupOnlyPull(t, IF config.HLSEnable THEN "add_hls" ELSE "wait")
    /\ UNCHANGED <<isPulling, hlsMuxer, gopCache, httpflvGopCache>>

\* AddRTMPPullSession: group.hlsMuxer = hls.NewMuxer(...); Start()
AddRTMPPullSessionHLS(t) ==
    /\ pullTask[t] = "add_hls"
    /\ hlsMuxer' = NewMuxer
    /\ GroupOnlyPull(t, "wait")
    /\ UNCHANGED <<pullSession, isPulling, gopCache, httpflvGopCache>>

\* err = <-pullSesion.Done()
PullDone(t) ==
    /\ pullTask[t] = "wait"
    /\ GroupOnlyPull(t, "del_lock")
    /\ UNCHANGED <<pullSession, isPulling, hlsMuxer, gopCache, httpflvGopCache>>

\* DelRTMPPullSession: group.mutex.Lock() immediately followed by Unlock()
DelRTMPPullSessionLock(t) ==
    /\ pullTask[t] = "del_lock"
    /\ ~mutex
    /\ GroupOnlyPull(t, "del_pull")
    /\ UNCHANGED <<pullSession, isPulling, hlsMuxer, gopCache, httpflvGopCache>>

\* DelRTMPPullSession: group.pullSession = nil
DelRTMPPullSessionPull(t) ==
    /\ pullTask[t] = "del_pull"
    /\ pullSession' = NoPull
    /\ GroupOnlyPull(t, "del_ispulling")
    /\ UNCHANGED <<isPulling, hlsMuxer, gopCache, httpflvGopCache>>

\* DelRTMPPullSession: group.isPulling = false
DelRTMPPullSessionIsPulling(t) ==
    /\ pullTask[t] = "del_ispulling"
    /\ isPulling' = FALSE
    /\ GroupOnlyPull(t, "del_hls")
    /\ UNCHANGED <<pullSession, hlsMuxer, gopCache, httpflvGopCache>>

\* DelRTMPPullSession: dispose the HLS muxer if there is one
DelRTMPPullSessionHLS(t) ==
    /\ pullTask[t] = "del_hls"
    /\ hlsMuxer' = IF config.HLSEnable /\ hlsMuxer.nonNil THEN NoMuxer ELSE hlsMuxer
    /\ GroupOnlyPull(t, "del_gop")
    /\ UNCHANGED <<pullSession, isPulling, gopCache, httpflvGopCache>>

\* DelRTMPPullSession: group.gopCache.Clear()
DelRTMPPullSessionGOP(t) ==
    /\ pullTask[t] = "del_gop"
    /\ gopCache' = GOPCacheClear(gopCache)
    /\ GroupOnlyPull(t, "del_flvgop")
    /\ UNCHANGED <<pullSession, isPulling, hlsMuxer, httpflvGopCache>>

\* DelRTMPPullSession: group.httpflvGopCache.Clear(); the goroutine ends
DelRTMPPullSessionFLVGOP(t) ==
    /\ pullTask[t] = "del_flvgop"
    /\ httpflvGopCache' = GOPCacheClear(httpflvGopCache)
    /\ GroupOnlyPull(t, PullIdle)
    /\ UNCHANGED <<pullSession, isPulling, hlsMuxer, gopCache>>

----------------------------------------------------------------------------
(* The relay-push goroutine of a url, started by pushIfNeeded.  Its calls  *)
(* of AddRTMPPushSession and DelRTMPPushSession are operations above.      *)

PushOnly(url, k, next) ==
    /\ pushTask' = [pushTask EXCEPT ![url][k] = next]
    /\ UNCHANGED <<config, pubSession, pubLive, pubObserver, rtmpSubSessionSet,
                   httpflvSubSessionSet, hlsMuxer, url2PushProxy, pullSession,
                   isPulling, gopCache, httpflvGopCache, mutex, isFresh, wq,
                   disposed, pullTask, ret, rest, pos>>

\* pushSession.Push(url) returns nil
PushDialOk(url, k) == pushTask[url][k] = "push" /\ PushOnly(url, k, "add")

\* pushSession.Push(url) returns an error
PushDialFail(url, k) == pushTask[url][k] = "push" /\ PushOnly(url, k, "del")

\* err = <-pushSession.Done()
PushDone(url, k) == pushTask[url][k] = "wait" /\ PushOnly(url, k, "del")

----------------------------------------------------------------------------
(* rtmp.ChunkComposer: the bytes of the wire *)

defaultChunkSize == 128

maxTimestampInMessageHeader == 16777215

typeidSetChunkSize == 1

(* The timestamps and lengths of the behaviours below stay under 2^31:     *)
(* no uint32 sum or difference of RunLoop wraps, and it is the sum or the  *)
(* difference of the integers.                                             *)

Min(a, b) == IF a < b THEN a ELSE b

\* the byte at index i of what io.ReadAtLeast has delivered
ByteAt(bs, i) == IF i <= Len(bs) THEN bs[i] ELSE 0

\* bele.BEUint24, bele.BEUint32, bele.LEUint32 of the bytes from index i on
BEUint24(bs, i) == ByteAt(bs, i) * 65536 + ByteAt(bs, i + 1) * 256 + ByteAt(bs, i + 2)

BEUint32(bs, i) ==
    ByteAt(bs, i) * 16777216 + ByteAt(bs, i + 1) * 65536
        + ByteAt(bs, i + 2) * 256 + ByteAt(bs, i + 3)

LEUint32(bs, i) ==
    ByteAt(bs, i) + ByteAt(bs, i + 1) * 256
        + ByteAt(bs, i + 2) * 65536 + ByteAt(bs, i + 3) * 16777216

\* the encodings the peer writes
PutBEUint24(v) == <<v \div 65536, (v \div 256) % 256, v % 256>>

PutBEUint32(v) == <<v \div 16777216, (v \div 65536) % 256, (v \div 256) % 256, v % 256>>

PutLEUint32(v) == <<v % 256, (v \div 256) % 256, (v \div 65536) % 256, v \div 16777216>>

----------------------------------------------------------------------------
(* rtmp.ChunkComposer.RunLoop *)

NewStream ==
    [header |-> [CSID |-> 0, MsgLen |-> 0, Timestamp |-> 0, MsgTypeID |-> 0,
                 MsgStreamID |-> 0, TimestampAbs |-> 0],
     msg |-> <<>>]

getOrCreateStream(csid) ==
    IF csid \in DOMAIN csid2stream THEN csid2stream[csid] ELSE NewStream

\* the basic header at the front of bs: its format, its csid and its length
BasicHeader(bs) ==
    LET low == ByteAt(bs, 1) % 64 IN
    [fmt |-> ByteAt(bs, 1) \div 64,
     csid |-> CASE low = 0 -> 64 + ByteAt(bs, 2)
                [] low = 1 -> 64 + ByteAt(bs, 2) + ByteAt(bs, 3) * 256
                [] OTHER -> low,
     size |-> CASE low = 0 -> 2 [] low = 1 -> 3 [] OTHER -> 1]

\* the length of the message header of a chunk of format fmt
MessageHeaderSize(fmt) == CASE fmt = 0 -> 11 [] fmt = 1 -> 7 [] fmt = 2 -> 3 [] OTHER -> 0

\* the header of the stream after the message header at index i of bs
MessageHeader(h, fmt, bs, i) ==
    CASE fmt = 0 ->
            [h EXCEPT !.Timestamp = BEUint24(bs, i),
                      !.TimestampAbs = BEUint24(bs, i),
                      !.MsgLen = BEUint24(bs, i + 3),
                      !.MsgTypeID = ByteAt(bs, i + 6),
                      !.MsgStreamID = LEUint32(bs, i + 7)]
      [] fmt = 1 ->
            [h EXCEPT !.Timestamp = BEUint24(bs, i),
                      !.MsgLen = BEUint24(bs, i + 3),
                      !.MsgTypeID = ByteAt(bs, i + 6)]
      [] fmt = 2 -> [h EXCEPT !.Timestamp = BEUint24(bs, i)]
      [] OTHER -> h

\* the header of the stream after the extended timestamp at index i of bs
ExtendedTimestamp(h, fmt, bs, i) ==
    CASE fmt = 0 ->
            [h EXCEPT !.Timestamp = BEUint32(bs, i), !.TimestampAbs = BEUint32(bs, i)]
      [] fmt \in {1, 2} ->
            [h EXCEPT !.Timestamp = BEUint32(bs, i),
                      !.TimestampAbs =
                          (h.TimestampAbs - maxTimestampInMessageHeader
                                + BEUint32(bs, i))]
      [] OTHER -> [h EXCEPT !.Timestamp = BEUint32(bs, i)]

\* the number of payload bytes the iteration reads
NeededSize(h, accumulated) ==
    IF h.MsgLen <= peerChunkSize
    THEN h.MsgLen
    ELSE Min((h.MsgLen - accumulated), peerChunkSize)

(* One iteration of the loop over the bytes bs: what it parses, what it   *)
(* reads and what it leaves in the stream.                                 *)
Iteration(bs) ==
    LET bh == BasicHeader(bs)
        stream == getOrCreateStream(bh.csid)
        h1 == MessageHeader(stream.header, bh.fmt, bs, bh.size + 1)
        hsize == bh.size + MessageHeaderSize(bh.fmt)
        hasExt == h1.Timestamp >= maxTimestampInMessageHeader
        h2 == IF hasExt THEN ExtendedTimestamp(h1, bh.fmt, bs, hsize + 1) ELSE h1
        psize == hsize + (IF hasExt THEN 4 ELSE 0)
        neededSize == NeededSize(h2, Len(stream.msg))
        total == psize + neededSize
        msg == stream.msg \o SubSeq(bs, psize + 1, Min(total, Len(bs)))
        flag == (bh.fmt = 0) \/ absTsFlag
        complete == Len(msg) = h2.MsgLen
        h3 == IF complete
              THEN [h2 EXCEPT !.CSID = bh.csid,
                              !.TimestampAbs = IF flag THEN h2.TimestampAbs
                                               ELSE (h2.TimestampAbs + h2.Timestamp)]
              ELSE h2
    IN  [ready |-> Len(bs) >= 1 /\ Len(bs) >= total,
         csid |-> bh.csid,
         total |-> total,
         neededSize |-> neededSize,
         remaining |-> h2.MsgLen - Len(stream.msg),
         complete |-> complete,
         overrun |-> Len(msg) > h2.MsgLen,
         absTsFlag |-> IF complete THEN FALSE ELSE flag,
         peerChunkSize |-> IF complete /\ h2.MsgTypeID = typeidSetChunkSize
                           THEN BEUint32(msg, 1) ELSE peerChunkSize,
         header |-> h3,
         msg |-> msg]

(* One iteration of RunLoop: it blocks until the reader holds the bytes    *)
(* of the headers and of neededSize payload bytes, and then consumes them. *)
RunLoop ==
    LET it == Iteration(reader) IN
    /\ ~panicked
    /\ it.ready
    /\ reader' = SubSeq(reader, it.total + 1, Len(reader))
    /\ lastRead' = [neededSize |-> it.neededSize, remaining |-> it.remaining,
                    peerChunkSize |-> peerChunkSize]
    /\ csid2stream' =
          [c \in DOMAIN csid2stream \cup {it.csid} |->
              IF c = it.csid
              THEN [header |-> it.header,
                    msg |-> IF it.complete THEN <<>> ELSE it.msg]
              ELSE csid2stream[c]]
    /\ absTsFlag' = it.absTsFlag
    /\ peerChunkSize' = it.peerChunkSize
    /\ delivered' = IF it.complete
                    THEN Append(delivered, [header |-> it.header, msg |-> it.msg,
                                            peerChunkSize |-> it.peerChunkSize])
                    ELSE delivered
    /\ panicked' = it.overrun
    /\ UNCHANGED <<gvars, encChunkSize, enc, sent, nMsgs>>

(* The owner of the composer configures the chunk size the peer is going   *)
(* to start with, before the peer writes.                                  *)
SetPeerChunkSize(val) ==
    /\ nMsgs = 0
    /\ val = encChunkSize
    /\ peerChunkSize # val
    /\ peerChunkSize' = val
    /\ UNCHANGED <<gvars, csid2stream, absTsFlag, reader, delivered, lastRead,
                   panicked, encChunkSize, enc, sent, nMsgs>>

----------------------------------------------------------------------------
(* The peer: it divides messages into chunks as the wire format says *)

MaxMsgs == 3

ControlCsid == 2

MediaCsids == {3, 64}

Csids == {ControlCsid} \cup MediaCsids

typeidVideo == 9

ChunkSizes == {4, 4096}

MsgLens == {3, 6}

Timestamps == {520, 16777215}

Deltas == {40, 16777216}

\* the payload of the k-th message of the peer
Payload(k, len) == [j \in 1..len |-> (16 * k + j) % 256]

PutBasicHeader(fmt, csid) ==
    IF csid < 64 THEN <<fmt * 64 + csid>>
    ELSE IF csid < 320 THEN <<fmt * 64, csid - 64>>
    ELSE <<fmt * 64 + 1, (csid - 64) % 256, (csid - 64) \div 256>>

PutTimestamp(v) ==
    PutBEUint24(IF v >= maxTimestampInMessageHeader THEN maxTimestampInMessageHeader ELSE v)

PutMessageHeader(fmt, v, len, typeid, msid) ==
    CASE fmt = 0 -> PutTimestamp(v) \o PutBEUint24(len) \o <<typeid>> \o PutLEUint32(msid)
      [] fmt = 1 -> PutTimestamp(v) \o PutBEUint24(len) \o <<typeid>>
      [] fmt = 2 -> PutTimestamp(v)
      [] OTHER -> <<>>

\* the extended timestamp field of a chunk whose stream carries the value v
PutExtendedTimestamp(v) ==
    IF v >= maxTimestampInMessageHeader THEN PutBEUint32(v) ELSE <<>>

NoChunkStream ==
    [has |-> FALSE, ts |-> 0, field |-> 0, len |-> 0, typeid |-> 0, msid |-> 0,
     payload |-> <<>>, rem |-> <<>>, fmt |-> 0, chunks |-> 0]

\* the peer writes when RunLoop is blocked in a read
PeerMayWrite ==
    /\ ~panicked
    /\ ~Iteration(reader).ready
    /\ nMsgs = 0 => peerChunkSize = encChunkSize

(* The peer writes one chunk of the stream csid, whose state becomes e and *)
(* whose message still has the bytes e.rem to go. A message it has written *)
(* completely goes to sent, with the format of its first chunk and the     *)
(* number of its chunks.                                                   *)
WriteChunk(csid, fmt, e) ==
    LET n == Min(encChunkSize, Len(e.rem))
        chunk == PutBasicHeader(fmt, csid)
                    \o PutMessageHeader(fmt, e.field, e.len, e.typeid, e.msid)
                    \o PutExtendedTimestamp(e.field)
                    \o SubSeq(e.rem, 1, n)
        done == n = Len(e.rem)
    IN  /\ reader' = reader \o chunk
        /\ enc' = [enc EXCEPT ![csid] = [e EXCEPT !.rem = SubSeq(e.rem, n + 1, Len(e.rem)),
                                                  !.chunks = e.chunks + 1]]
        /\ sent' = IF done
                   THEN Append(sent, [header |-> [CSID |-> csid, MsgLen |-> e.len,
                                                  Timestamp |-> e.field,
                                                  MsgTypeID |-> e.typeid,
                                                  MsgStreamID |-> e.msid,
                                                  TimestampAbs |-> e.ts],
                                      msg |-> e.payload,
                                      fmt |-> e.fmt, chunks |-> e.chunks + 1])
                   ELSE sent
        /\ encChunkSize' = IF done /\ e.typeid = typeidSetChunkSize
                           THEN BEUint32(e.payload, 1) ELSE encChunkSize
        /\ UNCHANGED <<gvars, peerChunkSize, csid2stream, absTsFlag, delivered,
                       lastRead, panicked>>

(* The peer starts its next message on the chunk stream csid with a chunk  *)
(* of format fmt: v is the timestamp of a format 0 chunk and the delta of  *)
(* the other formats.                                                      *)
WriteMessage(csid, fmt, v, len) ==
    LET e0 == enc[csid]
        k == nMsgs + 1
        e == [has |-> TRUE, ts |-> IF fmt = 0 THEN v ELSE (e0.ts + v),
              field |-> v, len |-> len, typeid |-> typeidVideo, msid |-> 1,
              payload |-> Payload(k, len), rem |-> Payload(k, len),
              fmt |-> fmt, chunks |-> 0]
    IN  /\ PeerMayWrite
        /\ nMsgs < MaxMsgs
        /\ e0.rem = <<>>
        /\ fmt = 0 => v \in Timestamps
        /\ fmt \in {1, 2} => e0.has /\ v \in Deltas
        /\ fmt \in {2, 3} => e0.has /\ len = e0.len
        /\ fmt = 3 => v = e0.field
        /\ nMsgs' = k
        /\ WriteChunk(csid, fmt, e)

\* the peer announces the chunk size val, and uses it from then on
WriteSetChunkSize(val) ==
    LET e == [has |-> TRUE, ts |-> 0, field |-> 0, len |-> 4,
              typeid |-> typeidSetChunkSize, msid |-> 0,
              payload |-> PutBEUint32(val), rem |-> PutBEUint32(val),
              fmt |-> 0, chunks |-> 0]
    IN  /\ PeerMayWrite
        /\ nMsgs < MaxMsgs
        /\ val # encChunkSize
        /\ nMsgs' = nMsgs + 1
        /\ WriteChunk(ControlCsid, 0, e)

\* the peer writes the next chunk of the message it has begun on csid
WriteContinuation(csid) ==
    /\ PeerMayWrite
    /\ enc[csid].rem # <<>>
    /\ UNCHANGED nMsgs
    /\ WriteChunk(csid, 3, enc[csid])

----------------------------------------------------------------------------
(* The composer after NewChunkComposer, and its behaviours *)

NewChunkComposer ==
    /\ peerChunkSize = defaultChunkSize
    /\ csid2stream = [c \in {} |-> NewStream]
    /\ absTsFlag = FALSE
    /\ reader = <<>>
    /\ delivered = <<>>
    /\ lastRead = [neededSize |-> 0, remaining |-> 0, peerChunkSize |-> defaultChunkSize]
    /\ panicked = FALSE

\* a peer that has written nothing and is going to start with the chunk size size
NewPeer(size) ==
    /\ encChunkSize = size
    /\ enc = [c \in Csids |-> NoChunkStream]
    /\ sent = <<>>
    /\ nMsgs = 0

----------------------------------------------------------------------------
(* The group after NewGroup, and its behaviours *)

AllEnabled(gopNum) ==
    [HLSEnable |-> TRUE, RelayPullEnable |-> TRUE, RelayPushEnable |-> TRUE,
     RTMPEnable |-> TRUE, HTTPFLVEnable |-> TRUE,
     RTMPGOPNum |-> gopNum, HTTPFLVGOPNum |-> gopNum]

NewGroup(cfg, who, msgs) ==
    /\ config = cfg
    /\ pubSession = NIL
    /\ pubLive = {}
    /\ pubObserver = {}
    /\ rtmpSubSessionSet = {}
    /\ httpflvSubSessionSet = {}
    /\ hlsMuxer = NoMuxer
    /\ url2PushProxy = [u \in PushUrls |-> [isPushing |-> FALSE, pushSession |-> NIL]]
    /\ pullSession = NoPull
    /\ isPulling = FALSE
    /\ gopCache = NewGOPCache
    /\ httpflvGopCache = NewGOPCache
    /\ mutex = FALSE
    /\ isFresh = [s \in AllSessions |-> TRUE]
    /\ wq = [s \in AllSessions |-> <<>>]
    /\ disposed = {}
    /\ pullTask = [t \in Tasks |-> PullIdle]
    /\ pushTask = [u \in PushUrls |-> [k \in PushTasks |-> PushIdle]]
    /\ ret = NoRet
    /\ pubs = who
    /\ script = msgs
    /\ pos = 1
    /\ exitChan = 0
    /\ disposing = [d \in DisposeCalls |-> "idle"]
    /\ isNil = {}

\* the publisher of the lifecycle behaviours sends one key frame
LifecycleScript == <<"key">>

PullTaskStep ==
    \E t \in Tasks :
        \/ PullDialOk(t)
        \/ PullDialFail(t)
        \/ AddRTMPPullSessionLock(t)
        \/ AddRTMPPullSessionSet(t)
        \/ AddRTMPPullSessionHLS(t)
        \/ PullDone(t)
        \/ DelRTMPPullSessionLock(t)
        \/ DelRTMPPullSessionPull(t)
        \/ DelRTMPPullSessionIsPulling(t)
        \/ DelRTMPPullSessionHLS(t)
        \/ DelRTMPPullSessionGOP(t)
        \/ DelRTMPPullSessionFLVGOP(t)

PushTaskStep ==
    \E u \in PushUrls, k \in PushTasks :
        \/ PushDialOk(u, k)
        \/ PushDialFail(u, k)
        \/ PushDone(u, k)
        \/ AddRTMPPushSession(u, k)
        \/ DelRTMPPushSession(u, k)

\* the operations every caller of the group may invoke
GroupCall ==
    \/ MutexLock
    \/ Tick
    \/ \E s \in PubSessions : AddRTMPPubSession(s)
    \/ \E s \in PubSessions : DelRTMPPubSession(s)
    \/ \E s \in RtmpSubs : AddRTMPSubSession(s)
    \/ \E s \in RtmpSubs : DelRTMPSubSession(s)
    \/ \E s \in FlvSubs : AddHTTPFLVSubSession(s)
    \/ \E s \in FlvSubs : DelHTTPFLVSubSession(s)
    \/ IsTotalEmpty
    \/ OnReadRTMPAVMsg

(* Spec: a group with relay pull and HLS (relay push is off in the         *)
(* configuration), one publisher, one subscriber of each kind.             *)
Init ==
    /\ NewGroup([AllEnabled(1) EXCEPT !.RelayPushEnable = FALSE], {"p1"}, LifecycleScript)
    /\ runLoop = "none"
    /\ NewChunkComposer
    /\ NewPeer(defaultChunkSize)

Next == GroupCall \/ PullTaskStep

Spec == Init /\ [][Next]_vars

(* SpecFair: Spec with the scheduling the program has.  A goroutine that   *)
(* can run does run, so the steps of a pull goroutine that wait for         *)
(* nothing are weakly fair, and Pull returns, with or without an error.     *)
(* The mutex is handed to every goroutine that keeps asking for it, so its  *)
(* Lock in AddRTMPPullSession and DelRTMPPullSession is strongly fair, and  *)
(* the operation that holds the mutex runs to its Unlock.  The owner of     *)
(* the group calls Tick and IsTotalEmpty again and again.  When the pull    *)
(* session is done is up to the peer it pulls from: PullDone is not fair.   *)
PullTaskRuns(t) ==
    \/ PullDialOk(t)
    \/ PullDialFail(t)
    \/ AddRTMPPullSessionSet(t)
    \/ AddRTMPPullSessionHLS(t)
    \/ DelRTMPPullSessionPull(t)
    \/ DelRTMPPullSessionIsPulling(t)
    \/ DelRTMPPullSessionHLS(t)
    \/ DelRTMPPullSessionGOP(t)
    \/ DelRTMPPullSessionFLVGOP(t)

PullTaskLocks(t) == AddRTMPPullSessionLock(t) \/ DelRTMPPullSessionLock(t)

SpecFair ==
    /\ Init /\ [][Next]_vars
    /\ \A t \in Tasks : WF_vars(PullTaskRuns(t)) /\ SF_vars(PullTaskLocks(t))
    /\ WF_vars(MutexLock)
    /\ SF_vars(Tick)
    /\ SF_vars(IsTotalEmpty)

(* SpecPub: a group with relay push and HLS (relay pull is off in the      *)
(* configuration) and two publishers competing for the stream.             *)
InitPub ==
    /\ NewGroup([AllEnabled(1) EXCEPT !.RelayPullEnable = FALSE], PubSessions,
                LifecycleScript)
    /\ runLoop = "none"
    /\ NewChunkComposer
    /\ NewPeer(defaultChunkSize)

NextPub == GroupCall \/ PushTaskStep

SpecPub == InitPub /\ [][NextPub]_vars

(* SpecDispose: a group with HLS and either relay pull or relay push,      *)
(* whose owner runs RunLoop in a goroutine or does not, and calls Dispose  *)
(* at any time, up to MaxDisposeCalls times.                               *)
InitDispose ==
    /\ \E relay \in {"RelayPullEnable", "RelayPushEnable"} :
          NewGroup([AllEnabled(1) EXCEPT ![relay] = FALSE], {"p1"}, LifecycleScript)
    /\ runLoop \in {"none", "running"}
    /\ NewChunkComposer
    /\ NewPeer(defaultChunkSize)

DisposeStep ==
    \/ \E d \in DisposeCalls : DisposeCall(d)
    \/ \E d \in DisposeCalls : DisposeSend(d)
    \/ \E d \in DisposeCalls : Dispose(d)
    \/ GroupRunLoop

NextDispose == GroupCall \/ PullTaskStep \/ PushTaskStep \/ DisposeStep

SpecDispose == InitDispose /\ [][NextDispose]_vars

(* SpecRelay: a group with relay pull, relay push and HLS, one publisher   *)
(* and the goroutines of both relays.                                      *)
InitRelay ==
    /\ NewGroup(AllEnabled(1), {"p1"}, LifecycleScript)
    /\ runLoop = "none"
    /\ NewChunkComposer
    /\ NewPeer(defaultChunkSize)

NextRelay == GroupCall \/ PullTaskStep \/ PushTaskStep

SpecRelay == InitRelay /\ [][NextRelay]_vars

(* SpecBroadcast: a group with relay push whose publisher delivers a       *)
(* stream of two GOPs and one more frame, while a subscriber of each kind  *)
(* and the push session come and go; the rings hold one GOP or more.       *)
ReplayScript == <<"metadata", "vseq", "aseq", "key", "inter", "inter", "key", "inter",
                  "inter">>

InitBroadcast ==
    /\ \E gopNum \in 1..MaxGOPNum :
          NewGroup([AllEnabled(gopNum) EXCEPT !.RelayPullEnable = FALSE], {"p1"},
                   ReplayScript)
    /\ runLoop = "none"
    /\ NewChunkComposer
    /\ NewPeer(defaultChunkSize)

SpecBroadcast == InitBroadcast /\ [][NextPub]_vars

(* SpecChunk: a composer reading what a peer writes on three chunk streams, *)
(* with the default chunk size or one the owner has configured.            *)
InitChunk ==
    /\ NewGroup(AllEnabled(1), {}, <<>>)
    /\ runLoop = "none"
    /\ NewChunkComposer
    /\ \E size \in {defaultChunkSize} \cup ChunkSizes : NewPeer(size)

NextChunk ==
    \/ RunLoop
    \/ \E val \in ChunkSizes : SetPeerChunkSize(val)
    \/ \E csid \in MediaCsids, fmt \in 0..3, v \in Timestamps \cup Deltas, len \in MsgLens :
          WriteMessage(csid, fmt, v, len)
    \/ \E val \in ChunkSizes : WriteSetChunkSize(val)
    \/ \E csid \in Csids : WriteContinuation(csid)

SpecChunk == InitChunk /\ [][NextChunk]_vars

----------------------------------------------------------------------------
(* Claims about the group *)

\* C1: in every reachable state pubSession and pullSession are not both
\* non-nil: the group has at most one publisher, a local pub or a pull.
C1_AtMostOnePublisher == ~(pubSession # NIL /\ pullSession # NoPull)

\* a step that is the body of the operation op returning to its caller
Returns(op) == mutex /\ ~mutex' /\ ret'.op = op

\* C2: AddRTMPPubSession returns false and leaves pubSession as it is when a
\* publisher is installed, returns true and installs its session when none
\* is; DelRTMPPubSession leaves no publisher installed; nothing else changes
\* pubSession.  Hence the AddRTMPPubSession that follows a DelRTMPPubSession
\* returns true and installs the new session.
C2_PublisherUniqueness ==
    [][ /\ Returns("AddRTMPPubSession") =>
             /\ ret'.val = (pubSession = NIL)
             /\ pubSession # NIL => pubSession' = pubSession
             /\ pubSession = NIL => pubSession' \in pubLive' \ pubLive
        /\ Returns("DelRTMPPubSession") => pubSession' = NIL
        /\ pubSession' # pubSession =>
             Returns("AddRTMPPubSession") \/ Returns("DelRTMPPubSession")
      ]_vars

\* p1 was added, p2 was refused, a DelRTMPPubSession emptied the group, and
\* the AddRTMPPubSession of p2 that followed has just returned true
C2_Witness ==
    /\ ret = Returned("AddRTMPPubSession", TRUE)
    /\ pubSession = "p2"
    /\ "p1" \in pubLive

\* a pull goroutine that is dialing or holds a pull session: from its start
\* until its DelRTMPPullSession has reset group.isPulling
PullInFlight(t) ==
    pullTask[t] \in {"pull", "add_lock", "add_set", "add_hls", "wait",
                     "del_lock", "del_pull", "del_ispulling"}

\* C3: at most one pull goroutine is dialing or holds a pull session at any
\* time, whatever subscriber additions and Ticks are interleaved.
C3_AtMostOnePullInFlight == Cardinality({t \in Tasks : PullInFlight(t)}) <= 1

\* a pull is dialing with no publisher, both subscribers are in the group,
\* and a second goroutine is alive (finishing an earlier DelRTMPPullSession)
C3_Witness ==
    /\ pubSession = NIL
    /\ rtmpSubSessionSet # {} /\ httpflvSubSessionSet # {}
    /\ \E t \in Tasks : pullTask[t] = "pull"
    /\ \E t \in Tasks : pullTask[t] \in {"del_hls", "del_gop", "del_flvgop"}

\* C4: AddRTMPPullSession and DelRTMPPullSession touch pullSession,
\* isPulling, hlsMuxer and the GOP caches only while they hold the mutex: as
\* long as another operation holds the mutex, none of these changes.
C4_PullSessionOpsHoldMutex ==
    [][ (mutex /\ mutex') =>
          UNCHANGED <<pullSession, isPulling, hlsMuxer, gopCache, httpflvGopCache>>
      ]_vars

\* C11: IsTotalEmpty returns true only when the group has no publisher, no
\* subscriber of either kind, no push proxy pushing or holding a session,
\* and no pull in flight: isPulling is false and pullSession is nil.
C11_TotalEmptyMeansNoPull ==
    [][ (Returns("IsTotalEmpty") /\ ret'.val) =>
            /\ pubSession = NIL
            /\ rtmpSubSessionSet = {}
            /\ httpflvSubSessionSet = {}
            /\ \A u \in PushUrls :
                    ~url2PushProxy[u].isPushing /\ url2PushProxy[u].pushSession = NIL
            /\ ~isPulling
            /\ pullSession = NoPull
      ]_vars

\* no operation of the group is under way: the mutex is free and no pull
\* goroutine is inside AddRTMPPullSession or DelRTMPPullSession
BetweenOperations ==
    /\ ~mutex
    /\ \A t \in Tasks : pullTask[t] \in {PullIdle, "pull", "add_lock", "wait", "del_lock"}

\* C12: with HLS enabled, between operations hlsMuxer is non-nil exactly
\* when a publisher, pubSession or pullSession, is attached, whatever the
\* pull goroutines have done.
C12_MuxerIffPublisher ==
    (config.HLSEnable /\ BetweenOperations) =>
        (hlsMuxer.nonNil <=> (pubSession # NIL \/ pullSession # NoPull))

\* a call of Dispose that can never return: it waits to send on the full
\* exitChan, and no goroutine of RunLoop is there to receive from it
BlockedInDispose(d) ==
    /\ disposing[d] = "send"
    /\ exitChan = ExitChanCap
    /\ runLoop # "running"

\* C13: calling Dispose twice on the same group is harmless: whether or not
\* RunLoop is being run for the group, no call of Dispose is ever left waiting
\* on a send to exitChan that nothing will receive, and a Dispose that returns
\* on an already disposed group leaves the group as it found it.
C13_DisposeTwiceReturns ==
    [][ /\ \A d \in DisposeCalls : ~BlockedInDispose(d)'
        /\ \A d \in DisposeCalls :
              (Dispose(d) /\ \E e \in DisposeCalls : disposing[e] = "done") =>
                  UNCHANGED <<pubSession, rtmpSubSessionSet, httpflvSubSessionSet,
                              hlsMuxer, url2PushProxy, pullSession, isPulling,
                              gopCache, httpflvGopCache, isNil>>
      ]_vars

\* C14: after Dispose returns, the group owns nothing: the publisher, the
\* relay-pull session, every subscriber of either kind, every push session and
\* the HLS muxer are detached, what was attached is disposed, and both GOP
\* caches are cleared.
C14_DisposeTearsDownAll ==
    [][ Returns("Dispose") =>
            /\ pubSession' = NIL
            /\ pullSession' = NoPull
            /\ rtmpSubSessionSet' = {}
            /\ httpflvSubSessionSet' = {}
            /\ \A u \in PushUrls : url2PushProxy'[u].pushSession = NIL
            /\ ~hlsMuxer'.nonNil
            /\ (({pubSession} \ {NIL}) \cup rtmpSubSessionSet \cup httpflvSubSessionSet
                    \cup PushSessionsAttached) \subseteq disposed'
            /\ gopCache' = NewGOPCache
            /\ httpflvGopCache' = NewGOPCache
      ]_vars

\* the push goroutines of url that are alive
PushAlive(url) == {k \in PushTasks : pushTask[url][k] # PushIdle}

\* C20: for every push url at most one push goroutine is alive, a push
\* goroutine is started only by an operation that leaves a publisher
\* attached, and a proxy whose pushSession is not nil has isPushing set, in
\* every interleaving of AddRTMPPubSession, DelRTMPPubSession, Tick and the
\* push goroutines' AddRTMPPushSession and DelRTMPPushSession.
C20_AtMostOnePushTask ==
    [][ \A u \in PushUrls :
          /\ Cardinality(PushAlive(u)') <= 1
          /\ (PushAlive(u)' \ PushAlive(u) # {}) => (mutex /\ pubSession' # NIL)
          /\ url2PushProxy'[u].pushSession # NIL => url2PushProxy'[u].isPushing
      ]_vars

\* the publisher left and came back while the push goroutine it had started
\* was waiting for its session to end: no second goroutine was started
C20_Witness ==
    /\ pubSession # NIL
    /\ ~mutex
    /\ pushTask["u1"][1] = "wait"
    /\ url2PushProxy["u1"].isPushing
    /\ url2PushProxy["u1"].pushSession = NIL

\* the goroutines the step has started
PullStarted == {t \in Tasks : pullTask[t] = PullIdle /\ pullTask'[t] # PullIdle}
PushStarted(url) == PushAlive(url)' \ PushAlive(url)

PullRunning == \E t \in Tasks : pullTask[t] = "wait"

\* no pull goroutine is left and no pull session is attached
PullEnded == pullSession = NoPull /\ \A t \in Tasks : pullTask[t] = PullIdle

NoSubscriber == rtmpSubSessionSet = {} /\ httpflvSubSessionSet = {}

\* C17: with relay pull enabled, once a pull goroutine is running and every
\* subscriber has been removed, the pull goroutine eventually ends, its
\* session removed by DelRTMPPullSession, and IsTotalEmpty eventually
\* returns true, unless a subscriber or a publisher comes first.
C17_PullEndsWithoutSubscribers ==
    /\ (PullRunning /\ NoSubscriber) ~>
            (~NoSubscriber \/ pubSession # NIL \/ PullEnded)
    /\ (PullRunning /\ NoSubscriber) ~>
            (~NoSubscriber \/ pubSession # NIL \/ ret = Returned("IsTotalEmpty", TRUE))

\* the step empties a GOP cache that held something
Clears(c, d) == c # GOPCacheClear(c) /\ d = GOPCacheClear(c)

\* C21: while a publisher stays attached no operation clears a GOP cache: in
\* particular the DelRTMPPullSession of a pull goroutine that was started
\* before the publisher attached, after a failed Pull or at the end of its
\* session, leaves what the caches hold of the publisher's stream.
C21_CachesKeptWhilePublishing ==
    [][ (pubSession # NIL /\ pubSession' = pubSession) =>
            /\ ~Clears(gopCache, gopCache')
            /\ ~Clears(httpflvGopCache, httpflvGopCache')
      ]_vars

\* the session that the DelRTMPPubSession of this step was called with
Departing == pubLive \ pubLive'

\* C22: DelRTMPPubSession called with a session that is not the installed
\* publisher, such as one that AddRTMPPubSession has refused, leaves the
\* installed publisher, the HLS muxer, the push sessions and both GOP caches
\* as they are.
C22_DelOtherPublisherIsNoop ==
    [][ (Returns("DelRTMPPubSession") /\ pubSession \notin Departing) =>
            UNCHANGED <<pubSession, hlsMuxer, url2PushProxy, gopCache, httpflvGopCache>>
      ]_vars

----------------------------------------------------------------------------
(* Claims about the broadcast *)

\* a step that is OnReadRTMPAVMsg
Broadcast == pos' = pos + 1

\* the sessions a broadcast serves
Served(s) ==
    s \in rtmpSubSessionSet \cup httpflvSubSessionSet \cup PushSessionsAttached

\* what the step has written to the session s
Written(s) == SubSeq(wq'[s], Len(wq[s]) + 1, Len(wq'[s]))

\* the k-th message of the publisher in the bytes of the session s
Item(s, k) ==
    IF s \in FlvSubs
    THEN Lrm2ftGet([kind |-> script[k], seq |-> k])
    ELSE LcdGet([kind |-> script[k], seq |-> k])

CacheOf(s) == IF s \in FlvSubs THEN httpflvGopCache ELSE gopCache

GOPNumOf(s) == IF s \in FlvSubs THEN config.HTTPFLVGOPNum ELSE config.RTMPGOPNum

\* C9: a broadcast writes to a fresh session the cached metadata, video
\* sequence header and audio sequence header, if any, then every message of
\* every cached GOP, and then the current message, which is not part of what
\* precedes it; after metadata, video-seq, audio-seq, key, inter, inter,
\* key, inter, a fresh session gets these eight and then the live message,
\* and with a ring of one GOP the three headers, the second GOP and the
\* live message.
C9_ReplayThenCurrent ==
    [][ Broadcast =>
          \A s \in AllSessions : (Served(s) /\ isFresh[s]) =>
              LET c == CacheOf(s)
                  n == Len(Written(s))
                  prefix == SubSeq(Written(s), 1, n - 1)
              IN  /\ n >= 1
                  /\ Written(s)[n] = Item(s, pos)
                  /\ prefix = ((c.Metadata \o c.VideoSeqHeader) \o c.AACSeqHeader)
                                  \o Flatten(c.gops)
                  /\ \A j \in 1..(n - 1) : prefix[j].seq < pos
                  /\ (script = ReplayScript /\ pos = 9 /\ c.Metadata # <<>>) =>
                        prefix = IF GOPNumOf(s) >= 2
                                 THEN [k \in 1..8 |-> Item(s, k)]
                                 ELSE <<Item(s, 1), Item(s, 2), Item(s, 3),
                                        Item(s, 7), Item(s, 8)>>
      ]_vars

\* a native subscriber that joined after the two GOPs has the eight cached
\* messages and the live one
C9_Witness ==
    /\ script = ReplayScript
    /\ config.RTMPGOPNum = 2
    /\ "s1" \in rtmpSubSessionSet
    /\ wq["s1"] = [k \in 1..9 |-> Item("s1", k)]

\* no message is twice in what a session was written
NoReplayTwice(q) == \A i, j \in 1..Len(q) : q[i] = q[j] => i = j

\* C10: a member session stays fresh until a broadcast serves it; that
\* broadcast, one critical section of the mutex, writes it the cached state
\* and clears IsFresh; a broadcast writes a session that is not fresh the
\* current message only, so that no session is written the cached state
\* twice.
C10_FreshLatch ==
    [][ \A s \in AllSessions :
          /\ (Served(s) /\ Served(s)' /\ isFresh[s] /\ ~Broadcast) =>
                (isFresh'[s] /\ wq'[s] = wq[s])
          /\ (Broadcast /\ Served(s)) =>
                /\ mutex /\ ~mutex'
                /\ ~isFresh'[s]
                /\ isFresh[s] => Len(Written(s)) = Len(SendCached(CacheOf(s))) + 1
                /\ ~isFresh[s] => Written(s) = <<Item(s, pos)>>
                /\ NoReplayTwice(wq'[s])
      ]_vars

\* the push session was written the cached metadata with its first message
\* and nothing but the message in the broadcast after
C10_Witness ==
    /\ url2PushProxy["u1"].pushSession = "u1"
    /\ ~isFresh["u1"]
    /\ wq["u1"] = <<Item("u1", 1), Item("u1", 2), Item("u1", 3)>>

\* how many times the k-th message of the publisher is in the queue q of s
Copies(s, k, q) == Cardinality({i \in 1..Len(q) : q[i] = Item(s, k)})

\* C15: the group does not reorder: the broadcast of the publisher's message
\* number pos puts it once at the end of the queue of every session that is a
\* member, behind messages that were read before it only, and in no other
\* queue; and nothing but a broadcast puts a message of the publisher in a
\* queue.
C15_BroadcastOrder ==
    [][ \A s \in AllSessions :
          /\ (Broadcast /\ Served(s)) =>
                /\ Len(wq'[s]) > Len(wq[s])
                /\ SubSeq(wq'[s], 1, Len(wq[s])) = wq[s]
                /\ wq'[s][Len(wq'[s])] = Item(s, pos)
                /\ Copies(s, pos, wq'[s]) = 1
                /\ \A j \in 1..(Len(wq'[s]) - 1) : wq'[s][j].seq < pos
          /\ (Broadcast /\ ~Served(s)) => wq'[s] = wq[s]
          /\ ~Broadcast =>
                \/ wq'[s] = wq[s]
                \/ \A i \in 1..Len(wq'[s]) : wq'[s][i].kind = "header"
      ]_vars

\* a tag-stream subscriber that joined before the publisher's first message
\* has the two headers and then the first four messages, in order
C15_Witness ==
    /\ "f1" \in httpflvSubSessionSet
    /\ wq["f1"] = <<HTTPResponseHeader, FLVHeader>> \o [k \in 1..4 |-> Item("f1", k)]

----------------------------------------------------------------------------
(* Claims about the chunk composer *)

\* the i-th callback got the i-th message the peer completed
DeliveredAsSent(i) ==
    /\ delivered[i].header.CSID = sent[i].header.CSID
    /\ delivered[i].header.MsgLen = sent[i].header.MsgLen
    /\ Len(delivered[i].msg) = sent[i].header.MsgLen
    /\ delivered[i].header.MsgTypeID = sent[i].header.MsgTypeID
    /\ delivered[i].header.TimestampAbs = sent[i].header.TimestampAbs
    /\ delivered[i].msg = sent[i].msg

\* C5: whatever the formats of the chunks and however the chunks of the
\* messages of different csids interleave, RunLoop never panics and calls
\* back once per message, in completion order, with the message's payload
\* length, type id and absolute timestamp; once it has read all the peer
\* wrote, every complete message has had its callback.
C5_RoundTrip ==
    /\ ~panicked
    /\ Len(delivered) <= Len(sent)
    /\ \A i \in 1..Len(delivered) : DeliveredAsSent(i)
    /\ reader = <<>> => Len(delivered) = Len(sent)

\* C6: a message that begins with a format 1 or format 2 chunk and goes on
\* in format 3 chunks has its callback with the absolute timestamp of the
\* csid plus the delta, added once.
C6_DeltaAddedOnce ==
    \A i \in 1..Len(delivered) :
        (i <= Len(sent) /\ sent[i].fmt \in {1, 2} /\ sent[i].chunks > 1) =>
            /\ delivered[i].header.CSID = sent[i].header.CSID
            /\ delivered[i].header.TimestampAbs = sent[i].header.TimestampAbs

\* C7: a complete message of type id 1 sets peerChunkSize to the big-endian
\* value of its body before its callback, and every iteration reads the
\* smaller of peerChunkSize and what its message still lacks.
C7_SetChunkSize ==
    /\ \A i \in 1..Len(delivered) :
            delivered[i].header.MsgTypeID = typeidSetChunkSize =>
                delivered[i].peerChunkSize = BEUint32(delivered[i].msg, 1)
    /\ lastRead.neededSize = Min(lastRead.peerChunkSize, lastRead.remaining)

\* C8: a message sent in format 0 with a timestamp of 0xFFFFFF or more has
\* its callback with the value of the extended timestamp field as absolute
\* timestamp and with exactly its payload, its format 3 chunks carrying the
\* field too.
C8_ExtendedTimestamp ==
    \A i \in 1..Len(delivered) :
        (i <= Len(sent) /\ sent[i].fmt = 0
            /\ sent[i].header.Timestamp >= maxTimestampInMessageHeader) =>
            /\ delivered[i].header.TimestampAbs = sent[i].header.Timestamp
            /\ delivered[i].msg = sent[i].msg

\* C18: no iteration of RunLoop reads more payload bytes than its message
\* still lacks, so that what a csid has accumulated is never longer than
\* the MsgLen of its header and RunLoop never panics on an overrun, also
\* when a set-chunk-size message of another csid changes peerChunkSize
\* while a message of several chunks is partly accumulated.
C18_NoOverrun ==
    /\ ~panicked
    /\ lastRead.neededSize <= lastRead.remaining
    /\ \A c \in DOMAIN csid2stream :
            Len(csid2stream[c].msg) <= csid2stream[c].header.MsgLen

\* C19: a message that begins with a format 1 or format 2 chunk whose
\* 24-bit timestamp field is 0xFFFFFF, followed by the 4-byte value E, has
\* its callback with the previous absolute timestamp of its csid plus E:
\* the 4-byte value is the delta and is applied once.
C19_ExtendedDelta ==
    \A i \in 1..Len(delivered) :
        (i <= Len(sent) /\ sent[i].fmt \in {1, 2}
            /\ sent[i].header.Timestamp >= maxTimestampInMessageHeader) =>
            /\ delivered[i].header.CSID = sent[i].header.CSID
            /\ delivered[i].header.TimestampAbs = sent[i].header.TimestampAbs

====
